---- MODULE Spec2Model ----
(***************************************************************************)
(* asm/socket.h for mipsel-linux-android: the socket-option constant table *)
(* as the C preprocessor builds it.  The header is a list of directives    *)
(* processed in file order into a macro table; a consumer looks a name up  *)
(* by macro expansion (replace, rescan) and integer-literal conversion.    *)
(***************************************************************************)
EXTENDS Integers, Sequences, FiniteSets, TLC

\* ---------------------------------------------------------------- bounds
\* How many times the translation unit includes the header.
MaxIncludes == 2
\* How many consumers look names up at the same time.
NumReaders == 2

\* ------------------------------------------------------- preprocessing tokens
\* A pp-number, kept as the characters written in the file.
Num(chars) == [k |-> "num", id |-> "", txt |-> chars]
\* An identifier.
Id(name) == [k |-> "id", id |-> name, txt |-> <<>>]

\* ------------------------------------------------------------- directives
DirIfndef(name) == [op |-> "ifndef", name |-> name, body |-> <<>>]
DirDefine(name, body) == [op |-> "define", name |-> name, body |-> body]
DirInclude(file) == [op |-> "include", name |-> file, body |-> <<>>]
DirEndif == [op |-> "endif", name |-> "", body |-> <<>>]

\* Line number of the first directive (lines 1..18 are a comment).
FirstLine == 19
\* Line number of the closing #endif, the last line of the file.
LastLine == 92

\* The directives of socket.h, one per line, lines 19..92 in file order.
HeaderLines == <<
    DirIfndef("_UAPI_ASM_SOCKET_H"),                                \* line 19
    DirDefine("_UAPI_ASM_SOCKET_H", <<>>),                          \* line 20
    DirInclude("asm/sockios.h"),                                    \* line 21
    DirDefine("SOL_SOCKET", <<Num(<<"0","x","f","f","f","f">>)>>),  \* line 22
    DirDefine("SO_DEBUG", <<Num(<<"0","x","0","0","0","1">>)>>),    \* line 23
    DirDefine("SO_REUSEADDR", <<Num(<<"0","x","0","0","0","4">>)>>), \* line 24
    DirDefine("SO_KEEPALIVE", <<Num(<<"0","x","0","0","0","8">>)>>), \* line 25
    DirDefine("SO_DONTROUTE", <<Num(<<"0","x","0","0","1","0">>)>>), \* line 26
    DirDefine("SO_BROADCAST", <<Num(<<"0","x","0","0","2","0">>)>>), \* line 27
    DirDefine("SO_LINGER", <<Num(<<"0","x","0","0","8","0">>)>>),   \* line 28
    DirDefine("SO_OOBINLINE", <<Num(<<"0","x","0","1","0","0">>)>>), \* line 29
    DirDefine("SO_REUSEPORT", <<Num(<<"0","x","0","2","0","0">>)>>), \* line 30
    DirDefine("SO_TYPE", <<Num(<<"0","x","1","0","0","8">>)>>),     \* line 31
    DirDefine("SO_STYLE", <<Id("SO_TYPE")>>),                       \* line 32
    DirDefine("SO_ERROR", <<Num(<<"0","x","1","0","0","7">>)>>),    \* line 33
    DirDefine("SO_SNDBUF", <<Num(<<"0","x","1","0","0","1">>)>>),   \* line 34
    DirDefine("SO_RCVBUF", <<Num(<<"0","x","1","0","0","2">>)>>),   \* line 35
    DirDefine("SO_SNDLOWAT", <<Num(<<"0","x","1","0","0","3">>)>>), \* line 36
    DirDefine("SO_RCVLOWAT", <<Num(<<"0","x","1","0","0","4">>)>>), \* line 37
    DirDefine("SO_SNDTIMEO", <<Num(<<"0","x","1","0","0","5">>)>>), \* line 38
    DirDefine("SO_RCVTIMEO", <<Num(<<"0","x","1","0","0","6">>)>>), \* line 39
    DirDefine("SO_ACCEPTCONN", <<Num(<<"0","x","1","0","0","9">>)>>), \* line 40
    DirDefine("SO_PROTOCOL", <<Num(<<"0","x","1","0","2","8">>)>>), \* line 41
    DirDefine("SO_DOMAIN", <<Num(<<"0","x","1","0","2","9">>)>>),   \* line 42
    DirDefine("SO_NO_CHECK", <<Num(<<"1","1">>)>>),                 \* line 43
    DirDefine("SO_PRIORITY", <<Num(<<"1","2">>)>>),                 \* line 44
    DirDefine("SO_BSDCOMPAT", <<Num(<<"1","4">>)>>),                \* line 45
    DirDefine("SO_PASSCRED", <<Num(<<"1","7">>)>>),                 \* line 46
    DirDefine("SO_PEERCRED", <<Num(<<"1","8">>)>>),                 \* line 47
    DirDefine("SO_SECURITY_AUTHENTICATION", <<Num(<<"2","2">>)>>),  \* line 48
    DirDefine("SO_SECURITY_ENCRYPTION_TRANSPORT", <<Num(<<"2","3">>)>>), \* line 49
    DirDefine("SO_SECURITY_ENCRYPTION_NETWORK", <<Num(<<"2","4">>)>>), \* line 50
    DirDefine("SO_BINDTODEVICE", <<Num(<<"2","5">>)>>),             \* line 51
    DirDefine("SO_ATTACH_FILTER", <<Num(<<"2","6">>)>>),            \* line 52
    DirDefine("SO_DETACH_FILTER", <<Num(<<"2","7">>)>>),            \* line 53
    DirDefine("SO_GET_FILTER", <<Id("SO_ATTACH_FILTER")>>),         \* line 54
    DirDefine("SO_PEERNAME", <<Num(<<"2","8">>)>>),                 \* line 55
    DirDefine("SO_TIMESTAMP", <<Num(<<"2","9">>)>>),                \* line 56
    DirDefine("SCM_TIMESTAMP", <<Id("SO_TIMESTAMP")>>),             \* line 57
    DirDefine("SO_PEERSEC", <<Num(<<"3","0">>)>>),                  \* line 58
    DirDefine("SO_SNDBUFFORCE", <<Num(<<"3","1">>)>>),              \* line 59
    DirDefine("SO_RCVBUFFORCE", <<Num(<<"3","3">>)>>),              \* line 60
    DirDefine("SO_PASSSEC", <<Num(<<"3","4">>)>>),                  \* line 61
    DirDefine("SO_TIMESTAMPNS", <<Num(<<"3","5">>)>>),              \* line 62
    DirDefine("SCM_TIMESTAMPNS", <<Id("SO_TIMESTAMPNS")>>),         \* line 63
    DirDefine("SO_MARK", <<Num(<<"3","6">>)>>),                     \* line 64
    DirDefine("SO_TIMESTAMPING", <<Num(<<"3","7">>)>>),             \* line 65
    DirDefine("SCM_TIMESTAMPING", <<Id("SO_TIMESTAMPING")>>),       \* line 66
    DirDefine("SO_RXQ_OVFL", <<Num(<<"4","0">>)>>),                 \* line 67
    DirDefine("SO_WIFI_STATUS", <<Num(<<"4","1">>)>>),              \* line 68
    DirDefine("SCM_WIFI_STATUS", <<Id("SO_WIFI_STATUS")>>),         \* line 69
    DirDefine("SO_PEEK_OFF", <<Num(<<"4","2">>)>>),                 \* line 70
    DirDefine("SO_NOFCS", <<Num(<<"4","3">>)>>),                    \* line 71
    DirDefine("SO_LOCK_FILTER", <<Num(<<"4","4">>)>>),              \* line 72
    DirDefine("SO_SELECT_ERR_QUEUE", <<Num(<<"4","5">>)>>),         \* line 73
    DirDefine("SO_BUSY_POLL", <<Num(<<"4","6">>)>>),                \* line 74
    DirDefine("SO_MAX_PACING_RATE", <<Num(<<"4","7">>)>>),          \* line 75
    DirDefine("SO_BPF_EXTENSIONS", <<Num(<<"4","8">>)>>),           \* line 76
    DirDefine("SO_INCOMING_CPU", <<Num(<<"4","9">>)>>),             \* line 77
    DirDefine("SO_ATTACH_BPF", <<Num(<<"5","0">>)>>),               \* line 78
    DirDefine("SO_DETACH_BPF", <<Id("SO_DETACH_FILTER")>>),         \* line 79
    DirDefine("SO_ATTACH_REUSEPORT_CBPF", <<Num(<<"5","1">>)>>),    \* line 80
    DirDefine("SO_ATTACH_REUSEPORT_EBPF", <<Num(<<"5","2">>)>>),    \* line 81
    DirDefine("SO_CNX_ADVICE", <<Num(<<"5","3">>)>>),               \* line 82
    DirDefine("SCM_TIMESTAMPING_OPT_STATS", <<Num(<<"5","4">>)>>),  \* line 83
    DirDefine("SO_MEMINFO", <<Num(<<"5","5">>)>>),                  \* line 84
    DirDefine("SO_INCOMING_NAPI_ID", <<Num(<<"5","6">>)>>),         \* line 85
    DirDefine("SO_COOKIE", <<Num(<<"5","7">>)>>),                   \* line 86
    DirDefine("SCM_TIMESTAMPING_PKTINFO", <<Num(<<"5","8">>)>>),    \* line 87
    DirDefine("SO_PEERGROUPS", <<Num(<<"5","9">>)>>),               \* line 88
    DirDefine("SO_ZEROCOPY", <<Num(<<"6","0">>)>>),                 \* line 89
    DirDefine("SO_TXTIME", <<Num(<<"6","1">>)>>),                   \* line 90
    DirDefine("SCM_TXTIME", <<Id("SO_TXTIME")>>),                   \* line 91
    DirEndif                                                        \* line 92
>>

\* The header with SO_STYLE written one line early, ahead of SO_TYPE.
DirectiveAtAliasFirst(l) ==
    IF l = 31 THEN HeaderLines[32 - FirstLine + 1]
    ELSE IF l = 32 THEN HeaderLines[31 - FirstLine + 1]
    ELSE HeaderLines[l - FirstLine + 1]

\* The directive written at line l of the header.
DirectiveAt(l) == HeaderLines[l - FirstLine + 1]

Lines == FirstLine..LastLine
\* The lines that hold a #define with a replacement list (the table's entries).
EntryLines == {l \in Lines : DirectiveAt(l).op = "define" /\ DirectiveAt(l).body # <<>>}
\* Entries whose replacement list is an integer literal.
LiteralLines == {l \in EntryLines : DirectiveAt(l).body[1].k = "num"}
\* Entries whose replacement list is another name.
AliasLines == {l \in EntryLines : DirectiveAt(l).body[1].k = "id"}
\* The names socket.h gives a value to.
DefinedNames == {DirectiveAt(l).name : l \in EntryLines}
LiteralNames == {DirectiveAt(l).name : l \in LiteralLines}
AliasNames == {DirectiveAt(l).name : l \in AliasLines}
\* The name the include guard tests and defines.
GuardName == DirectiveAt(FirstLine).name

\* ------------------------------------------------- integer-literal conversion
\* Digit values with the letters counted from 11.
DigitValueLettersOffByOne(c) ==
    CASE c = "0" -> 0 [] c = "1" -> 1 [] c = "2" -> 2 [] c = "3" -> 3
      [] c = "4" -> 4 [] c = "5" -> 5 [] c = "6" -> 6 [] c = "7" -> 7
      [] c = "8" -> 8 [] c = "9" -> 9
      [] c \in {"a", "A"} -> 11 [] c \in {"b", "B"} -> 12
      [] c \in {"c", "C"} -> 13 [] c \in {"d", "D"} -> 14
      [] c \in {"e", "E"} -> 15 [] c \in {"f", "F"} -> 16

\* Value of one digit character (C 6.4.4.1: digits, then a..f / A..F).
DigitValue(c) ==
    CASE c = "0" -> 0 [] c = "1" -> 1 [] c = "2" -> 2 [] c = "3" -> 3
      [] c = "4" -> 4 [] c = "5" -> 5 [] c = "6" -> 6 [] c = "7" -> 7
      [] c = "8" -> 8 [] c = "9" -> 9
      [] c \in {"a", "A"} -> 10 [] c \in {"b", "B"} -> 11
      [] c \in {"c", "C"} -> 12 [] c \in {"d", "D"} -> 13
      [] c \in {"e", "E"} -> 14 [] c \in {"f", "F"} -> 15

RECURSIVE AccumulateUnweighted(_, _, _)
\* Accumulation that scales the digit instead of the running value.
AccumulateUnweighted(chars, radix, acc) ==
    IF chars = <<>> THEN acc
    ELSE AccumulateUnweighted(Tail(chars), radix, acc + radix * DigitValue(Head(chars)))

RECURSIVE Accumulate(_, _, _)
\* Horner evaluation of the digit string in the given radix, from acc.
Accumulate(chars, radix, acc) ==
    IF chars = <<>> THEN acc
    ELSE Accumulate(Tail(chars), radix, acc * radix + DigitValue(Head(chars)))

\* A literal that starts with 0x or 0X is hexadecimal.
HasHexPrefix(chars) ==
    Len(chars) >= 2 /\ chars[1] = "0" /\ chars[2] \in {"x", "X"}

\* Radix with the hexadecimal prefix skipped but the digits read as decimal.
RadixDecimalOnly(chars) ==
    IF Len(chars) >= 2 /\ chars[1] = "0" /\ ~HasHexPrefix(chars) THEN 8 ELSE 10

\* Radix a literal is read in: hexadecimal with the prefix, octal with a
\* leading 0, decimal otherwise.
Radix(chars) ==
    IF HasHexPrefix(chars) THEN 16
    ELSE IF Len(chars) >= 2 /\ chars[1] = "0" THEN 8
    ELSE 10

\* Digits with one character too many removed after the prefix.
DigitsSkipOneMore(chars) ==
    IF HasHexPrefix(chars) THEN SubSeq(chars, 4, Len(chars)) ELSE chars

\* The digits of a literal, prefix removed.
Digits(chars) ==
    IF HasHexPrefix(chars) THEN SubSeq(chars, 3, Len(chars)) ELSE chars

\* The integer a literal written as chars denotes.
Convert(chars) == Accumulate(Digits(chars), Radix(chars), 0)

\* ------------------------------------------------------------ macro expansion
\* Outcome of using a name where an integer is expected.
Value(v) == [ok |-> TRUE, val |-> v]
LookupError == [ok |-> FALSE, val |-> 0]

\* Evaluate with the #if rule: an identifier left over counts as 0.
EvaluateIdAsZero(toks) ==
    IF Len(toks) = 1 /\ toks[1].k = "num" THEN Value(Convert(toks[1].txt))
    ELSE IF Len(toks) = 1 /\ toks[1].k = "id" THEN Value(0)
    ELSE LookupError

\* What a fully expanded token list evaluates to: a single integer literal is
\* its value; an identifier that is no macro is undeclared, and an empty
\* expansion is no expression at all.
Evaluate(toks) ==
    IF Len(toks) = 1 /\ toks[1].k = "num" THEN Value(Convert(toks[1].txt))
    ELSE LookupError

\* Expandable that stops after the first replacement of an expansion.
ExpandableOnce(m, toks, hide) ==
    /\ toks # <<>>
    /\ toks[1].k = "id"
    /\ toks[1].id \in DOMAIN m
    /\ hide = {}

\* A token list whose first token is the name of a macro that is not being
\* expanded already can be replaced (C 6.10.3.4: no nested self-replacement).
Expandable(m, toks, hide) ==
    /\ toks # <<>>
    /\ toks[1].k = "id"
    /\ toks[1].id \in DOMAIN m
    /\ toks[1].id \notin hide

\* The replacement list put in place of the macro name, to be rescanned.
Replace(m, toks) == m[toks[1].id]

\* Expansion that replaces once and does not rescan the replacement.
ExpandNoRescan(m, toks, hide) ==
    IF Expandable(m, toks, hide) THEN Evaluate(Replace(m, toks)) ELSE Evaluate(toks)

RECURSIVE Expand(_, _, _)
\* Replace and rescan until nothing is expandable, then evaluate.
Expand(m, toks, hide) ==
    IF Expandable(m, toks, hide)
    THEN Expand(m, Replace(m, toks), hide \cup {toks[1].id})
    ELSE Evaluate(toks)

\* Looking name n up in macro table m.
Lookup(m, n) == Expand(m, <<Id(n)>>, {})

\* The table proper: the macros of m that have a replacement list.
TableNames(m) == {n \in DOMAIN m : m[n] # <<>>}

\* ------------------------------------------------------------------- state
VARIABLES
    pc,        \* 0 outside the header, else the line about to be processed
    included,  \* number of #include <asm/socket.h> begun so far
    macros,    \* the macro table: name -> replacement list
    rd         \* per reader: the lookup in progress

vars == <<pc, included, macros, rd>>

Readers == 1..NumReaders

\* Names the readers ask for: literals, an alias and its target, the guard,
\* and a name socket.h does not define.
LookupNames ==
    {"SOL_SOCKET", "SO_REUSEADDR", "SO_TYPE", "SO_STYLE", GuardName, "SO_TYPO"}

IdleReader == [st |-> "idle", name |-> "", toks |-> <<>>, hide |-> {}, out |-> LookupError]

EmptyTable == [n \in {} |-> <<>>]

Init ==
    /\ pc = 0
    /\ included = 0
    /\ macros = EmptyTable
    /\ rd = [r \in Readers |-> IdleReader]

\* --------------------------------------------------- processing the header
\* The consumer reaches an #include of the header.
StartInclude ==
    /\ pc = 0
    /\ included < MaxIncludes
    /\ \A r \in Readers : rd[r].st = "idle"
    /\ pc' = FirstLine
    /\ included' = included + 1
    /\ UNCHANGED <<macros, rd>>

\* A guard that never closes.
GuardAlwaysOpen(m, name) == TRUE

\* #ifndef NAME: the group is processed only if NAME is not a macro.
GuardOpen(m, name) == name \notin DOMAIN m

\* Line 19: enter the group, or skip to the matching #endif.
DoIfndef ==
    /\ pc \in Lines
    /\ DirectiveAt(pc).op = "ifndef"
    /\ pc' = IF GuardOpen(macros, DirectiveAt(pc).name) THEN pc + 1 ELSE LastLine
    /\ UNCHANGED <<included, macros, rd>>

\* The table after #define name body (a later definition replaces an earlier).
StoreMacro(m, name, body) ==
    [n \in DOMAIN m \cup {name} |-> IF n = name THEN body ELSE m[n]]

\* Lines 20, 22..91: #define.
DoDefine ==
    /\ pc \in Lines
    /\ DirectiveAt(pc).op = "define"
    /\ macros' = StoreMacro(macros, DirectiveAt(pc).name, DirectiveAt(pc).body)
    /\ pc' = pc + 1
    /\ UNCHANGED <<included, rd>>

\* Line 21: #include <asm/sockios.h>.  That file holds the SIOC*/FIO* ioctl
\* numbers; it defines none of the socket-option names.
DoInclude ==
    /\ pc \in Lines
    /\ DirectiveAt(pc).op = "include"
    /\ pc' = pc + 1
    /\ UNCHANGED <<included, macros, rd>>

\* Line 92: #endif, then end of file: back in the consumer.
DoEndif ==
    /\ pc \in Lines
    /\ DirectiveAt(pc).op = "endif"
    /\ pc' = 0
    /\ UNCHANGED <<included, macros, rd>>

\* ------------------------------------------------------------------ lookups
\* Names taken to be visible at any point, before or inside the header too.
TableReadyAnywhere == TRUE

\* The names are visible to a consumer once an #include of the header is
\* complete.
TableReady == pc = 0 /\ included >= 1

\* Reader r uses name n.
Begin(r, n) ==
    /\ TableReady
    /\ rd[r].st = "idle"
    /\ rd' = [rd EXCEPT ![r] = [st |-> "scan", name |-> n, toks |-> <<Id(n)>>,
                                hide |-> {}, out |-> LookupError]]
    /\ UNCHANGED <<pc, included, macros>>

\* One replacement of the macro name at the head of r's token list.
Rescan(r) ==
    /\ rd[r].st = "scan"
    /\ Expandable(macros, rd[r].toks, rd[r].hide)
    /\ rd' = [rd EXCEPT ![r].toks = Replace(macros, rd[r].toks),
                        ![r].hide = rd[r].hide \cup {rd[r].toks[1].id}]
    /\ UNCHANGED <<pc, included, macros>>

\* Nothing left to replace: the token list is evaluated.
Finish(r) ==
    /\ rd[r].st = "scan"
    /\ ~Expandable(macros, rd[r].toks, rd[r].hide)
    /\ rd' = [rd EXCEPT ![r].st = IF Evaluate(rd[r].toks).ok THEN "done" ELSE "error",
                        ![r].out = Evaluate(rd[r].toks)]
    /\ UNCHANGED <<pc, included, macros>>

\* The reader is through with the result.
Release(r) ==
    /\ rd[r].st \in {"done", "error"}
    /\ rd' = [rd EXCEPT ![r] = IdleReader]
    /\ UNCHANGED <<pc, included, macros>>

Next ==
    \/ StartInclude
    \/ DoIfndef
    \/ DoDefine
    \/ DoInclude
    \/ DoEndif
    \/ \E r \in Readers, n \in LookupNames : Begin(r, n)
    \/ \E r \in Readers : Rescan(r)
    \/ \E r \in Readers : Finish(r)
    \/ \E r \in Readers : Release(r)

Spec == Init /\ [][Next]_vars

\* The rescan loop of a started expansion runs to its end.
FairSpec == Spec /\ \A r \in Readers : WF_vars(Rescan(r)) /\ WF_vars(Finish(r))

TypeOK ==
    /\ pc \in {0} \cup Lines
    /\ included \in 0..MaxIncludes
    /\ DOMAIN macros \subseteq DefinedNames \cup {GuardName}
    /\ \A r \in Readers : rd[r].st \in {"idle", "scan", "done", "error"}
\* ------------------------------------------------------------------ claims
\* The reader has finished its lookup.
Finished(r) == rd[r].st \in {"done", "error"}

\* The 62 literal entries as integers, the hexadecimal ones converted.
Written == {
    <<"SOL_SOCKET", 65535>>, <<"SO_DEBUG", 1>>, <<"SO_REUSEADDR", 4>>,
    <<"SO_KEEPALIVE", 8>>, <<"SO_DONTROUTE", 16>>, <<"SO_BROADCAST", 32>>,
    <<"SO_LINGER", 128>>, <<"SO_OOBINLINE", 256>>, <<"SO_REUSEPORT", 512>>,
    <<"SO_TYPE", 4104>>, <<"SO_ERROR", 4103>>, <<"SO_SNDBUF", 4097>>,
    <<"SO_RCVBUF", 4098>>, <<"SO_SNDLOWAT", 4099>>, <<"SO_RCVLOWAT", 4100>>,
    <<"SO_SNDTIMEO", 4101>>, <<"SO_RCVTIMEO", 4102>>,
    <<"SO_ACCEPTCONN", 4105>>, <<"SO_PROTOCOL", 4136>>,
    <<"SO_DOMAIN", 4137>>, <<"SO_NO_CHECK", 11>>, <<"SO_PRIORITY", 12>>,
    <<"SO_BSDCOMPAT", 14>>, <<"SO_PASSCRED", 17>>, <<"SO_PEERCRED", 18>>,
    <<"SO_SECURITY_AUTHENTICATION", 22>>,
    <<"SO_SECURITY_ENCRYPTION_TRANSPORT", 23>>,
    <<"SO_SECURITY_ENCRYPTION_NETWORK", 24>>, <<"SO_BINDTODEVICE", 25>>,
    <<"SO_ATTACH_FILTER", 26>>, <<"SO_DETACH_FILTER", 27>>,
    <<"SO_PEERNAME", 28>>, <<"SO_TIMESTAMP", 29>>, <<"SO_PEERSEC", 30>>,
    <<"SO_SNDBUFFORCE", 31>>, <<"SO_RCVBUFFORCE", 33>>, <<"SO_PASSSEC", 34>>,
    <<"SO_TIMESTAMPNS", 35>>, <<"SO_MARK", 36>>, <<"SO_TIMESTAMPING", 37>>,
    <<"SO_RXQ_OVFL", 40>>, <<"SO_WIFI_STATUS", 41>>, <<"SO_PEEK_OFF", 42>>,
    <<"SO_NOFCS", 43>>, <<"SO_LOCK_FILTER", 44>>,
    <<"SO_SELECT_ERR_QUEUE", 45>>, <<"SO_BUSY_POLL", 46>>,
    <<"SO_MAX_PACING_RATE", 47>>, <<"SO_BPF_EXTENSIONS", 48>>,
    <<"SO_INCOMING_CPU", 49>>, <<"SO_ATTACH_BPF", 50>>,
    <<"SO_ATTACH_REUSEPORT_CBPF", 51>>, <<"SO_ATTACH_REUSEPORT_EBPF", 52>>,
    <<"SO_CNX_ADVICE", 53>>, <<"SCM_TIMESTAMPING_OPT_STATS", 54>>,
    <<"SO_MEMINFO", 55>>, <<"SO_INCOMING_NAPI_ID", 56>>, <<"SO_COOKIE", 57>>,
    <<"SCM_TIMESTAMPING_PKTINFO", 58>>, <<"SO_PEERGROUPS", 59>>,
    <<"SO_ZEROCOPY", 60>>, <<"SO_TXTIME", 61>>
}

\* C1: looking up any of the 70 names yields the integer written for it in
\* the header (for an alias, the integer written for its target), by the
\* table alone and by every finished reader; SOL_SOCKET is 65535 and
\* SO_REUSEADDR is 4.
C1_LookupYieldsWritten ==
    LET resolved == {<<n, Lookup(macros, n)>> : n \in TableNames(macros)}
    IN  /\ {p[1] : p \in Written} = LiteralNames
        /\ \A p \in resolved :
              \/ <<p[1], p[2].val>> \in Written /\ p[2].ok
              \/ /\ p[1] \in AliasNames
                 /\ <<macros[p[1]][1].id, p[2].val>> \in Written /\ p[2].ok
        /\ \A r \in Readers, p \in Written :
              Finished(r) /\ rd[r].name = p[1] => rd[r].out = Value(p[2])
        /\ TableReady =>
              /\ TableNames(macros) = DefinedNames
              /\ Cardinality(DefinedNames) = 70
              /\ <<"SOL_SOCKET", Value(65535)>> \in resolved
              /\ <<"SO_REUSEADDR", Value(4)>> \in resolved

\* A reader has looked SOL_SOCKET up and another SO_REUSEADDR.
C1_Witness ==
    /\ TableReady
    /\ \E r1, r2 \in Readers :
          /\ rd[r1].st = "done" /\ rd[r1].name = "SOL_SOCKET" /\ rd[r1].out.val = 65535
          /\ rd[r2].st = "done" /\ rd[r2].name = "SO_REUSEADDR" /\ rd[r2].out.val = 4

\* The alias pairs (alias, target) with the value both have.
AliasPairs == {
    <<"SO_STYLE", "SO_TYPE", 4104>>,
    <<"SO_GET_FILTER", "SO_ATTACH_FILTER", 26>>,
    <<"SCM_TIMESTAMP", "SO_TIMESTAMP", 29>>,
    <<"SCM_TIMESTAMPNS", "SO_TIMESTAMPNS", 35>>,
    <<"SCM_TIMESTAMPING", "SO_TIMESTAMPING", 37>>,
    <<"SCM_WIFI_STATUS", "SO_WIFI_STATUS", 41>>,
    <<"SO_DETACH_BPF", "SO_DETACH_FILTER", 27>>,
    <<"SCM_TXTIME", "SO_TXTIME", 61>> }

\* C2: for every alias pair (A defined as B) the value of A is the value of
\* B, with the eight pairs and values as listed.
C2_AliasEqualsTarget ==
    /\ {<<DirectiveAt(l).name, DirectiveAt(l).body[1].id>> : l \in AliasLines}
          = {<<p[1], p[2]>> : p \in AliasPairs}
    /\ \A p \in AliasPairs : p[1] \in DOMAIN macros =>
          /\ Lookup(macros, p[1]) = Lookup(macros, p[2])
          /\ Lookup(macros, p[1]) = Value(p[3])
    /\ \A p \in AliasPairs : \A r1, r2 \in Readers :
          /\ rd[r1].st \in {"done", "error"} /\ rd[r1].name = p[1]
          /\ rd[r2].st \in {"done", "error"} /\ rd[r2].name = p[2]
          => rd[r1].out = rd[r2].out /\ rd[r1].out = Value(p[3])

\* One reader has resolved SO_STYLE and another SO_TYPE.
C2_Witness ==
    \E r1, r2 \in Readers :
        /\ rd[r1].st = "done" /\ rd[r1].name = "SO_STYLE"
        /\ rd[r2].st = "done" /\ rd[r2].name = "SO_TYPE"
        /\ rd[r1].out.val = 4104 /\ rd[r2].out.val = 4104
\* C3: every alias resolves transitively to an integer literal: a started
\* lookup of an alias ends with an integer, never in an error; while it runs,
\* the token it holds is an integer literal or a name defined in the table
\* that it has not replaced before (no cycle, no undefined target).
C3_AliasResolvesToLiteral ==
    /\ \A r \in Readers :
          (rd[r].st = "scan" /\ rd[r].name \in AliasNames)
             ~> (rd[r].st = "done" /\ rd[r].toks[1].k = "num")
    /\ [](\A r \in Readers : rd[r].name \in AliasNames =>
             /\ rd[r].st # "error"
             /\ Len(rd[r].toks) = 1
             /\ \/ rd[r].toks[1].k = "num"
                \/ rd[r].toks[1].id \in TableNames(macros) \ rd[r].hide)
    /\ [](\A n \in AliasNames \cap DOMAIN macros :
             /\ macros[n][1].id \in LiteralNames \cap DOMAIN macros
             /\ Lookup(macros, n).ok)

\* A reader has followed an alias through its target down to the literal.
C3_Witness ==
    \E r \in Readers :
        /\ rd[r].st = "done"
        /\ rd[r].name = "SO_STYLE"
        /\ rd[r].hide = {"SO_STYLE", "SO_TYPE"}
        /\ rd[r].toks[1].k = "num"

\* C4: every name is defined once: a #define that is processed names a macro
\* not yet in the table, no step removes a name, and a name's replacement
\* list, hence its value, is the same after every step.
C4_DefinedOnce ==
    [][/\ (pc \in Lines /\ DirectiveAt(pc).op = "define")
             => DirectiveAt(pc).name \notin DOMAIN macros
       /\ \/ macros' = macros
          \/ \A n \in DOMAIN macros :
                /\ n \in DOMAIN macros'
                /\ macros'[n] = macros[n]
                /\ Lookup(macros', n) = Lookup(macros, n)]_vars

\* The header has been included again with the whole table in place, and
\* the guard has skipped to the #endif.
C4_Witness ==
    /\ included = 2
    /\ pc = LastLine
    /\ TableNames(macros) = DefinedNames

NamedAliases ==
    {"SO_STYLE", "SO_GET_FILTER", "SCM_TIMESTAMP", "SCM_TIMESTAMPNS",
     "SCM_TIMESTAMPING", "SCM_WIFI_STATUS", "SO_DETACH_BPF", "SCM_TXTIME"}

\* C7: aliases are defined in terms of previously defined entries: at the
\* step that processes the #define of an alias, its target already is an
\* entry of the table, and the aliases are the eight named ones.
C7_AliasTargetDefinedBefore ==
    [][(pc \in AliasLines /\ pc' = pc + 1) =>
          /\ DirectiveAt(pc).name \in NamedAliases
          /\ NamedAliases = AliasNames
          /\ DirectiveAt(pc).body[1].id \in TableNames(macros)
          /\ DirectiveAt(pc).name \in TableNames(macros')
          /\ Lookup(macros', DirectiveAt(pc).name).ok]_vars

\* The last alias, SCM_TXTIME, has just been defined after its target.
C7_Witness ==
    /\ pc = LastLine
    /\ included = 1
    /\ macros["SCM_TXTIME"] = <<Id("SO_TXTIME")>>
    /\ "SO_TXTIME" \in DOMAIN macros

\* C8: every value in the table is in 1..0xffff, and SOL_SOCKET (0xffff) is
\* strictly greater than the value of every other name.
C8_SixteenBitAndLevelGreatest ==
    LET resolved == {<<n, Lookup(macros, n)>> : n \in TableNames(macros)}
        level == {p[2].val : p \in {q \in resolved : q[1] = "SOL_SOCKET"}}
    IN  /\ \A p \in resolved :
              /\ p[2].ok
              /\ p[2].val \in 1..65535
              /\ p[1] # "SOL_SOCKET" => \A v \in level : p[2].val < v
        /\ level \subseteq {65535}
        /\ TableNames(macros) # {} => level = {65535}
        /\ \A r1, r2 \in Readers :
              /\ rd[r1].st = "done" /\ rd[r1].name = "SOL_SOCKET"
              /\ rd[r2].st = "done" /\ rd[r2].name # "SOL_SOCKET"
              => rd[r2].out.val \in 1..65534 /\ rd[r2].out.val < rd[r1].out.val

\* The whole table is in place and readers hold the level and an option code.
C8_Witness ==
    /\ TableNames(macros) = DefinedNames
    /\ \E r1, r2 \in Readers :
          /\ rd[r1].st = "done" /\ rd[r1].name = "SOL_SOCKET"
          /\ rd[r2].st = "done" /\ rd[r2].name = "SO_TYPE"

\* A is defined as B, or B as A.
AliasOf(m, a, b) == m[a] = <<Id(b)>> \/ m[b] = <<Id(a)>>

\* C9: two distinct names have the same value only if one is an alias of the
\* other; the 62 names defined by a literal have pairwise distinct values.
C9_InjectiveUpToAlias ==
    LET resolved == {<<n, Lookup(macros, n)>> : n \in TableNames(macros)}
    IN  /\ \A p, q \in resolved :
              (p[1] # q[1] /\ p[2] = q[2]) => AliasOf(macros, p[1], q[1])
        /\ TableReady =>
              /\ Cardinality(LiteralNames) = 62
              /\ Cardinality({p[2].val : p \in {q \in resolved : q[1] \in LiteralNames}}) = 62

\* The table is complete: hexadecimal and decimal codes are all present,
\* and an alias does share its target's value.
C9_Witness ==
    /\ TableReady
    /\ TableNames(macros) = DefinedNames
    /\ Lookup(macros, "SO_BROADCAST").val = 32
    /\ Lookup(macros, "SO_RCVBUFFORCE").val = 33
    /\ Lookup(macros, "SO_STYLE") = Lookup(macros, "SO_TYPE")

RECURSIVE BitAnd(_, _)
\* Bitwise AND of two naturals.
BitAnd(a, b) ==
    IF a = 0 \/ b = 0 THEN 0
    ELSE 2 * BitAnd(a \div 2, b \div 2) + (IF a % 2 = 1 /\ b % 2 = 1 THEN 1 ELSE 0)

\* v has exactly one bit set.
IsPowerOfTwo(v) == v > 0 /\ BitAnd(v, v - 1) = 0

\* The flag-style options.
FlagNames ==
    {"SO_DEBUG", "SO_REUSEADDR", "SO_KEEPALIVE", "SO_DONTROUTE",
     "SO_BROADCAST", "SO_LINGER", "SO_OOBINLINE", "SO_REUSEPORT"}

\* The options written as hexadecimal literals (SOL_SOCKET is the level).
HexOptionNames ==
    {DirectiveAt(l).name : l \in {k \in LiteralLines :
        HasHexPrefix(DirectiveAt(k).body[1].txt) /\ DirectiveAt(k).name # "SOL_SOCKET"}}

\* C10: each of the eight flag-style options is a single power of two below
\* 0x1000, any two distinct ones have bitwise AND 0, and every other option
\* written in hexadecimal is at least 0x1001 and not a power of two.
C10_FlagBits ==
    /\ FlagNames \subseteq HexOptionNames
    /\ \A n \in FlagNames \cap DOMAIN macros :
          /\ IsPowerOfTwo(Lookup(macros, n).val)
          /\ Lookup(macros, n).val < 4096
    /\ \A a, b \in FlagNames \cap DOMAIN macros :
          a # b => BitAnd(Lookup(macros, a).val, Lookup(macros, b).val) = 0
    /\ \A n \in (HexOptionNames \ FlagNames) \cap DOMAIN macros :
          /\ Lookup(macros, n).val >= 4097
          /\ ~IsPowerOfTwo(Lookup(macros, n).val)

\* All hexadecimal options are defined and a reader holds the flag SO_REUSEADDR.
C10_Witness ==
    /\ HexOptionNames \subseteq DOMAIN macros
    /\ Cardinality(HexOptionNames) = 19
    /\ \E r \in Readers :
          rd[r].st = "done" /\ rd[r].name = "SO_REUSEADDR" /\ IsPowerOfTwo(rd[r].out.val)
====
